---- MODULE Spec2Model ----
(***************************************************************************)
(* Model of drest's data mapping layer (src/drest/datamapper.py):          *)
(*   - DataMapperManager: the registry of mappers and the negotiation of   *)
(*     a parser / formatter for a request;                                 *)
(*   - the mappers' parse entry points;                                    *)
(*   - xml2obj: the SAX TreeBuilder that turns XML into Python values,     *)
(*     and XmlMapper._format_data / _to_xml, its inverse.                  *)
(*                                                                         *)
(* Python strings are sequences of one-character strings, so that          *)
(* concatenation, the charset stripping, the path pattern and the decimal  *)
(* conversion are computed and not assumed.  None and the mapper objects   *)
(* are one-element sequences holding a longer string, which no Python      *)
(* string of the model equals.                                             *)
(***************************************************************************)
EXTENDS Integers, Sequences, FiniteSets, TLC

VARIABLES
    datamappers,      \* DataMapperManager._datamappers: key -> mapper
    default_mapper,   \* DataMapperManager._default_mapper
    booted,           \* drest/__init__.py has run register_mappers()
    calls,            \* the successful register_mapper calls so far, in order
    call,             \* the manager call that returned last, with its outcome
    builder,          \* xml2obj's TreeBuilder: stack, root, current, text_parts
    sax,              \* the SAX parser: position, open elements, tokens fed
    xcall             \* the mapper / xml2obj call in progress, with its outcome

vars == <<datamappers, default_mapper, booted, calls, call, builder, sax, xcall>>

regvars == <<datamappers, default_mapper, booted, calls, call>>
xmlvars == <<builder, sax, xcall>>

(***************************************************************************)
(* Python values of the negotiation layer                                  *)
(***************************************************************************)
None == <<"<None>">>

TextMapper == <<"<DataMapper>">>
JsonMapper == <<"<JsonMapper>">>
XmlMapper == <<"<XmlMapper>">>
NoParseObj == <<"<object without parse()>">>

MapperObjs == {TextMapper, JsonMapper, XmlMapper}

\* `not x` for x a string or None
Falsy(x) == x = None \/ x = <<>>

\* isinstance(x, basestring)
IsString(x) == x # None /\ x \notin MapperObjs /\ x # NoParseObj

s_text == <<"t","e","x","t">>
s_xml == <<"x","m","l">>
s_json == <<"j","s","o","n">>
s_text_plain == <<"t","e","x","t","/","p","l","a","i","n">>
s_text_xml == <<"t","e","x","t","/","x","m","l">>
s_application_json == <<"a","p","p","l","i","c","a","t","i","o","n","/","j","s","o","n">>
s_application_x_javascript == <<"a","p","p","l","i","c","a","t","i","o","n","/","x","-","j","a","v","a","s","c","r","i","p","t">>
s_text_javascript == <<"t","e","x","t","/","j","a","v","a","s","c","r","i","p","t">>
s_text_x_javascript == <<"t","e","x","t","/","x","-","j","a","v","a","s","c","r","i","p","t">>
s_text_x_json == <<"t","e","x","t","/","x","-","j","s","o","n">>
s_charset == <<";"," ","c","h","a","r","s","e","t","=","u","t","f","-","8">>
s_vnd_nonexistent == <<"v","n","d",".","n","o","n","e","x","i","s","t","e","n","t">>
s_vnd_custom == <<"v","n","d",".","c","u","s","t","o","m">>
s_cust == <<"c","u","s","t">>
s_unknown_data_format == <<"u","n","k","n","o","w","n"," ","d","a","t","a"," ","f","o","r","m","a","t",":"," ">>

\* \w of the pattern, over the characters the model's paths use
WordChars == {"a","b","c","d","e","f","g","h","i","j","l","m","n","o","r","s","t","u","x","0","1","_"}

MinExtLen == 1
MaxExtLen == 8

\* the number of register_mapper calls after (or before) the start-up ones
MaxCalls == 2

(***************************************************************************)
(* util.py (not part of the sources at hand)                               *)
(***************************************************************************)
RECURSIVE strip_charset(_)
strip_charset(content_type) ==
    IF content_type = <<>> \/ Head(content_type) = ";" THEN <<>>
    ELSE <<Head(content_type)>> \o strip_charset(Tail(content_type))

\* the entries of the Accept header, most preferred (highest q) first;
\* entries of equal q keep the header's order
RECURSIVE parse_accept_header(_)
parse_accept_header(accept) ==
    IF accept = <<>> THEN <<>>
    ELSE LET best == CHOOSE i \in 1..Len(accept) :
                        \A j \in 1..Len(accept) :
                            \/ accept[j][2] < accept[i][2]
                            \/ (accept[j][2] = accept[i][2] /\ i <= j)
         IN  <<accept[best]>> \o
             parse_accept_header([k \in 1..(Len(accept) - 1) |->
                                     IF k < best THEN accept[k] ELSE accept[k + 1]])

(***************************************************************************)
(* DataMapperManager                                                       *)
(***************************************************************************)
\* dict[key] = value
DictSet(d, key, value) ==
    [k \in (DOMAIN d) \cup {key} |-> IF k = key THEN value ELSE d[k]]

EmptyDict == [k \in {} |-> None]

\* _check_mapper: the mapper has callable parse and format
_check_mapper(mapper) == mapper \in MapperObjs

\* a registration that leaves the keys alone that are registered already
register_mapper_dict_keeps_existing(d, mapper, content_type, shortname) ==
    LET d1 == IF content_type \in DOMAIN d THEN d ELSE DictSet(d, content_type, mapper)
    IN  IF ~Falsy(shortname) /\ shortname \notin DOMAIN d1
        THEN DictSet(d1, shortname, mapper) ELSE d1

\* the registry after register_mapper(mapper, content_type, shortname)
register_mapper_dict(d, mapper, content_type, shortname) ==
    LET d1 == DictSet(d, content_type, mapper)
    IN  IF ~Falsy(shortname) THEN DictSet(d1, shortname, mapper) ELSE d1

\* _format_query_pattern.match(path): the extensions the pattern captures
\* ('.*\.(?P<format>\w{1,8})$'; at most one, the text after the last dot)
_format_query_pattern(path) ==
    { SubSeq(path, i + 1, Len(path)) : i \in
        { i \in 1..Len(path) :
            /\ path[i] = "."
            /\ Len(path) - i >= MinExtLen
            /\ Len(path) - i <= MaxExtLen
            /\ \A j \in (i + 1)..Len(path) : path[j] \in WordChars } }

_get_short_name(request) ==
    IF ~Falsy(request.format) THEN request.format
    ELSE LET match == _format_query_pattern(request.path)
         IN  IF match # {} /\ (CHOOSE m \in match : TRUE) # <<>>
             THEN CHOOSE m \in match : TRUE
             ELSE request.format

\* the short name before the Content-Type header
_get_mapper_name_short_first(request) ==
    IF ~Falsy(_get_short_name(request)) THEN _get_short_name(request)
    ELSE IF Falsy(request.CONTENT_TYPE) THEN request.CONTENT_TYPE
    ELSE strip_charset(request.CONTENT_TYPE)

_get_mapper_name(request) ==
    IF Falsy(request.CONTENT_TYPE) THEN _get_short_name(request)
    ELSE strip_charset(request.CONTENT_TYPE)

RECURSIVE first_registered(_, _)
first_registered(accepts, d) ==
    IF accepts = <<>> THEN None
    ELSE IF Head(accepts)[1] \in DOMAIN d THEN Head(accepts)[1]
    ELSE first_registered(Tail(accepts), d)

\* the most preferred entry of the Accept header, registered or not
_parse_access_header_first_entry(request, d) ==
    IF request.HTTP_ACCEPT = <<>> THEN None
    ELSE parse_accept_header(request.HTTP_ACCEPT)[1][1]

_parse_access_header(request, d) ==
    first_registered(parse_accept_header(request.HTTP_ACCEPT), d)

\* outcomes: what a call returned (ret) or raised (raised, message), and the
\* branch of _get_mapper that decided it
Returned(branch, mapper) ==
    [branch |-> branch, ret |-> mapper, raised |-> "", message |-> <<>>]
Raised(branch, kind, message) ==
    [branch |-> branch, ret |-> None, raised |-> kind, message |-> message]

_unknown_format(format) ==
    Raised("unknown", "NotAcceptable", s_unknown_data_format \o format)

\* _get_mapper(mapper_name) without a default mapper argument
_get_mapper_plain(d, dflt, mapper_name) ==
    IF Falsy(mapper_name) THEN Returned("default", dflt)
    ELSE IF mapper_name \notin DOMAIN d THEN _unknown_format(mapper_name)
    ELSE Returned("found", d[mapper_name])

\* the manager's default, whatever the resource asks for
_get_default_mapper_ignores_resource(d, dflt, resource_default_mapper) ==
    Returned("default", dflt)

_get_default_mapper(d, dflt, resource_default_mapper) ==
    IF Falsy(resource_default_mapper) THEN Returned("default", dflt)
    ELSE IF IsString(resource_default_mapper)
    THEN [_get_mapper_plain(d, dflt, resource_default_mapper)
             EXCEPT !.branch = "default"]
    ELSE Returned("default", resource_default_mapper)

\* an unknown name falls back to the default mapper
_get_mapper_unknown_to_default(d, dflt, mapper_name, default_arg) ==
    IF Falsy(mapper_name) \/ mapper_name \notin DOMAIN d
    THEN _get_default_mapper(d, dflt, default_arg)
    ELSE Returned("found", d[mapper_name])

_get_mapper(d, dflt, mapper_name, default_arg) ==
    IF Falsy(mapper_name) THEN _get_default_mapper(d, dflt, default_arg)
    ELSE IF mapper_name \notin DOMAIN d THEN _unknown_format(mapper_name)
    ELSE Returned("found", d[mapper_name])

\* the Accept header before the short name
select_formatter_name_accept_first(request, d) ==
    LET mapper_name == _parse_access_header(request, d)
    IN  IF Falsy(mapper_name) THEN _get_short_name(request)
        ELSE mapper_name

select_formatter_name(request, d) ==
    LET mapper_name == _get_short_name(request)
    IN  IF Falsy(mapper_name) THEN _parse_access_header(request, d)
        ELSE mapper_name

(***************************************************************************)
(* The requests and arguments the calls are tried with                     *)
(***************************************************************************)
ContentTypes ==
    {None, <<>>, s_text_xml \o s_charset, s_vnd_custom, s_charset}

Formats == {None, <<>>, s_json, s_vnd_nonexistent}

Paths ==
    { <<"/","u","s","e","r">>,
      <<"/","u","s","e","r",".","x","m","l">>,
      <<"/","v","1",".","0","/","u","s","e","r">>,
      <<"/","u",".","a","b","c","d","e","f","g","h">>,
      <<"/","u",".","a","b","c","d","e","f","g","h","i">> }

Accepts ==
    { <<>>,
      << <<s_text_xml, 10>> >>,
      << <<s_vnd_nonexistent, 10>> >>,
      << <<s_application_json, 5>>, <<s_vnd_nonexistent, 8>>, <<s_text_xml, 10>> >> }

Requests ==
    [CONTENT_TYPE : ContentTypes, format : Formats, path : Paths,
     HTTP_ACCEPT : Accepts]

\* default_formatter / default_parser of a resource: nothing, a mapper
\* object, or the name of a mapper
ResourceDefaults == {None, XmlMapper, s_json, s_vnd_custom}

NoRequest ==
    [CONTENT_TYPE |-> None, format |-> None, path |-> <<>>, HTTP_ACCEPT |-> <<>>]

Idle ==
    [op |-> "idle", request |-> NoRequest, arg |-> None, mapper_name |-> None,
     out |-> Returned("", None)]

\* drest/__init__.py: the registrations of register_mappers(), in order
StartupCalls ==
    << [mapper |-> TextMapper, content_type |-> s_text_plain, shortname |-> s_text],
       [mapper |-> XmlMapper, content_type |-> s_text_xml, shortname |-> s_xml],
       [mapper |-> JsonMapper, content_type |-> s_application_json, shortname |-> s_json],
       [mapper |-> JsonMapper, content_type |-> s_application_x_javascript, shortname |-> s_json],
       [mapper |-> JsonMapper, content_type |-> s_text_javascript, shortname |-> s_json],
       [mapper |-> JsonMapper, content_type |-> s_text_x_javascript, shortname |-> s_json],
       [mapper |-> JsonMapper, content_type |-> s_text_x_json, shortname |-> s_json] >>

RECURSIVE register_all(_, _)
register_all(d, cs) ==
    IF cs = <<>> THEN d
    ELSE register_all(
            register_mapper_dict(d, Head(cs).mapper, Head(cs).content_type,
                                 Head(cs).shortname),
            Tail(cs))

CustomCalls == Len(calls) - (IF booted THEN Len(StartupCalls) ELSE 0)

(***************************************************************************)
(* Actions of the manager                                                  *)
(***************************************************************************)
register_mappers ==
    /\ call.op = "idle"
    /\ ~booted
    /\ booted' = TRUE
    /\ datamappers' = register_all(datamappers, StartupCalls)
    /\ calls' = calls \o StartupCalls
    /\ call' = [Idle EXCEPT !.op = "register_mappers"]
    /\ UNCHANGED <<default_mapper, xmlvars>>

register_mapper(mapper, content_type, shortname) ==
    /\ call.op = "idle"
    /\ CustomCalls < MaxCalls
    /\ IF _check_mapper(mapper)
       THEN /\ datamappers' =
                   register_mapper_dict(datamappers, mapper, content_type, shortname)
            /\ calls' = Append(calls, [mapper |-> mapper,
                                       content_type |-> content_type,
                                       shortname |-> shortname])
            /\ call' = [Idle EXCEPT !.op = "register_mapper", !.arg = mapper,
                                    !.mapper_name = content_type]
       ELSE /\ call' = [Idle EXCEPT !.op = "register_mapper", !.arg = mapper,
                                    !.mapper_name = content_type,
                                    !.out = Raised("", "ValueError", <<>>)]
            /\ UNCHANGED <<datamappers, calls>>
    /\ UNCHANGED <<default_mapper, booted, xmlvars>>

set_default_mapper(mapper) ==
    /\ call.op = "idle"
    /\ IF mapper = None
       THEN /\ default_mapper' = TextMapper
            /\ call' = [Idle EXCEPT !.op = "set_default_mapper", !.arg = mapper]
       ELSE IF _check_mapper(mapper)
       THEN /\ default_mapper' = mapper
            /\ call' = [Idle EXCEPT !.op = "set_default_mapper", !.arg = mapper]
       ELSE /\ call' = [Idle EXCEPT !.op = "set_default_mapper", !.arg = mapper,
                                    !.out = Raised("", "ValueError", <<>>)]
            /\ UNCHANGED default_mapper
    /\ UNCHANGED <<datamappers, booted, calls, xmlvars>>

select_formatter(request, default_formatter) ==
    /\ call.op = "idle"
    /\ LET mapper_name == select_formatter_name(request, datamappers)
       IN  call' = [op |-> "select_formatter", request |-> request,
                    arg |-> default_formatter, mapper_name |-> mapper_name,
                    out |-> _get_mapper(datamappers, default_mapper, mapper_name,
                                        default_formatter)]
    /\ UNCHANGED <<datamappers, default_mapper, booted, calls, xmlvars>>

select_parser(request, default_parser) ==
    /\ call.op = "idle"
    /\ LET mapper_name == _get_mapper_name(request)
       IN  call' = [op |-> "select_parser", request |-> request,
                    arg |-> default_parser, mapper_name |-> mapper_name,
                    out |-> _get_mapper(datamappers, default_mapper, mapper_name,
                                        default_parser)]
    /\ UNCHANGED <<datamappers, default_mapper, booted, calls, xmlvars>>

get_mapper_by_content_type(content_type) ==
    /\ call.op = "idle"
    /\ LET mapper_name == strip_charset(content_type)
       IN  call' = [op |-> "get_mapper_by_content_type",
                    request |-> [NoRequest EXCEPT !.CONTENT_TYPE = content_type],
                    arg |-> None, mapper_name |-> mapper_name,
                    out |-> _get_mapper(datamappers, default_mapper, mapper_name,
                                        None)]
    /\ UNCHANGED <<datamappers, default_mapper, booted, calls, xmlvars>>

\* the caller has taken the outcome of the call
call_done ==
    /\ call.op # "idle"
    /\ call' = Idle
    /\ UNCHANGED <<datamappers, default_mapper, booted, calls, xmlvars>>

(***************************************************************************)
(* Python values of the mappers: tagged, since a dict, a list and a string *)
(* are different values even when empty                                    *)
(***************************************************************************)
PyNone == [t |-> "none", v |-> <<>>]
Str(s) == [t |-> "str", v |-> s]
Num(n) == [t |-> "num", v |-> n]
Float(n) == [t |-> "float", v |-> n]
List(items) == [t |-> "list", v |-> items]
Dict(f) == [t |-> "dict", v |-> f]

\* bool(x) of a dict or a list
Truthy(x) == x.v # <<>>

s_root == <<"r","o","o","t">>
s_item == <<"i","t","e","m">>
s__item == <<"_","i","t","e","m">>
s_a == <<"a">>
s_b == <<"b">>

DigitChars == <<"0","1","2","3","4","5","6","7","8","9">>
Whitespace == {" "}

IsDigit(c) == \E i \in 1..10 : DigitChars[i] = c
DigitValue(c) == (CHOOSE i \in 1..10 : DigitChars[i] = c) - 1

RECURSIVE Join(_)
\* ''.join(parts)
Join(parts) == IF parts = <<>> THEN <<>> ELSE Head(parts) \o Join(Tail(parts))

RECURSIVE lstrip(_)
lstrip(s) == IF s # <<>> /\ Head(s) \in Whitespace THEN lstrip(Tail(s)) ELSE s

RECURSIVE rstrip(_)
rstrip(s) ==
    IF s # <<>> /\ s[Len(s)] \in Whitespace THEN rstrip(SubSeq(s, 1, Len(s) - 1))
    ELSE s

\* text.strip()
strip(s) == rstrip(lstrip(s))

\* Decimal(text) succeeds: over the characters of the model, on digit strings
IsDecimal(text) == text # <<>> /\ \A i \in 1..Len(text) : IsDigit(text[i])

RECURSIVE DecimalValue(_)
DecimalValue(text) ==
    IF text = <<>> THEN 0
    ELSE 10 * DecimalValue(SubSeq(text, 1, Len(text) - 1)) + DigitValue(text[Len(text)])

RECURSIVE smart_unicode_int(_)
\* smart_unicode(n) of a non-negative number
smart_unicode_int(n) ==
    IF n < 10 THEN <<DigitChars[n + 1]>>
    ELSE smart_unicode_int(n \div 10) \o <<DigitChars[(n % 10) + 1]>>

(***************************************************************************)
(* xml2obj                                                                 *)
(***************************************************************************)
\* node.values(): the values of the dict, in the order the dict keeps them
ValueOrders(f) ==
    LET n == Cardinality(DOMAIN f)
    IN  { [i \in 1..n |-> f[p[i]]] :
            p \in { q \in [1..n -> DOMAIN f] :
                      \A i, j \in 1..n : q[i] = q[j] => i = j } }

\* the merge rule that keeps the name: a repeated name turns its own entry
\* into the sequence of its values
element_to_py_keeps_name(node, name, value) ==
    IF node.t = "list" THEN { List(Append(node.v, value)) }
    ELSE IF name \in DOMAIN node.v
    THEN { Dict(DictSet(node.v, name,
                        IF node.v[name].t = "list"
                        THEN List(Append(node.v[name].v, value))
                        ELSE List(<<node.v[name], value>>))) }
    ELSE { Dict(DictSet(node.v, name, value)) }

\* element_to_py(node, name, value): the nodes it can return
element_to_py(node, name, value) ==
    IF node.t = "list" THEN { List(Append(node.v, value)) }
    ELSE IF name \in DOMAIN node.v
    THEN { List(vals \o <<value>>) : vals \in ValueOrders(node.v) }
    ELSE { Dict(DictSet(node.v, name, value)) }

\* the value of a text only node
LeafValue(text_parts) ==
    LET text == strip(Join(text_parts))
    IN  IF IsDecimal(text) THEN Num(DecimalValue(text)) ELSE Str(text)

\* TreeBuilder.__init__
NewBuilder ==
    [stack |-> <<>>, root |-> Dict(EmptyDict), current |-> Dict(EmptyDict),
     text_parts |-> <<>>]

startElement(b, name) ==
    [b EXCEPT !.stack = Append(b.stack, <<b.current, b.text_parts>>),
              !.current = Dict(EmptyDict),
              !.text_parts = <<>>]

characters(b, content) ==
    [b EXCEPT !.text_parts = Append(b.text_parts, content)]

\* the builders endElement can leave; self.root is the object the bottom
\* frame holds, so it changes when that object is changed in place
endElement(b, name) ==
    LET obj == IF Truthy(b.current) THEN b.current ELSE LeafValue(b.text_parts)
        frame == b.stack[Len(b.stack)]
        parent == frame[1]
        inplace == parent.t = "list" \/ name \notin DOMAIN parent.v
    IN  { [stack |-> SubSeq(b.stack, 1, Len(b.stack) - 1),
           root |-> IF Len(b.stack) = 1 /\ inplace THEN node ELSE b.root,
           current |-> node,
           text_parts |-> frame[2]] : node \in element_to_py(parent, name, obj) }

(***************************************************************************)
(* The SAX parser (xml.sax), over documents that are already cut into      *)
(* tokens: start tags, end tags and character data                         *)
(***************************************************************************)
StartTag(name) == [k |-> "start", s |-> name]
EndTag(name) == [k |-> "end", s |-> name]
CharData(text) == [k |-> "chars", s |-> text]
Eof == [k |-> "eof", s |-> <<>>]

\* bounds of the documents that arrive token by token
MaxTokens == 8
MaxDepth == 3

StreamNames == {s_root, s_item}
StreamTexts == { <<"1">>, <<"x"," ">> }
StreamTokens ==
    {StartTag(n) : n \in StreamNames} \cup {EndTag(n) : n \in StreamNames}
        \cup {CharData(t) : t \in StreamTexts}

NewSax == [open |-> <<>>, fed |-> <<>>, closed |-> FALSE]

\* the parser accepts the token as the next one of a well-formed document
WellFormedNext(p, tok) ==
    CASE tok.k = "start" -> p.open # <<>> \/ ~p.closed
      [] tok.k = "end" -> p.open # <<>> /\ p.open[Len(p.open)] = tok.s
      [] tok.k = "chars" -> p.open # <<>> \/ \A i \in 1..Len(tok.s) : tok.s[i] \in Whitespace
      [] tok.k = "eof" -> p.open = <<>> /\ p.closed

NoXCall ==
    [op |-> "idle", pc |-> "idle", src |-> "", pending |-> <<>>, orig |-> PyNone,
     charset |-> None, ret |-> PyNone, raised |-> "", message |-> <<>>]

\* the tokens the parser can read next
NextTokens ==
    IF xcall.src = "stream"
    THEN {Eof} \cup
         { tok \in StreamTokens :
             /\ Len(sax.fed) < MaxTokens
             /\ tok.k = "start" => Len(sax.open) < MaxDepth }
    ELSE IF xcall.pending = <<>> THEN {Eof} ELSE {xcall.pending[1]}

Consume(tok) ==
    IF xcall.src = "stream" \/ tok = Eof THEN xcall
    ELSE [xcall EXCEPT !.pending = Tail(xcall.pending)]

(***************************************************************************)
(* Actions of xml2obj and of the SAX parser                                *)
(***************************************************************************)
XRaise(kind, message) ==
    [xcall EXCEPT !.pc = "done", !.raised = kind, !.message = message]

\* xml2obj(src), src a document that is read token by token
xml2obj ==
    /\ xcall.pc = "idle"
    /\ xcall' = [NoXCall EXCEPT !.op = "xml2obj", !.pc = "parsing", !.src = "stream"]
    /\ builder' = NewBuilder
    /\ sax' = NewSax
    /\ UNCHANGED regvars

sax_startElement ==
    /\ xcall.pc = "parsing"
    /\ \E tok \in NextTokens :
        /\ tok.k = "start"
        /\ WellFormedNext(sax, tok)
        /\ builder' = startElement(builder, tok.s)
        /\ sax' = [sax EXCEPT !.open = Append(@, tok.s), !.fed = Append(@, tok)]
        /\ xcall' = Consume(tok)
    /\ UNCHANGED regvars

sax_characters ==
    /\ xcall.pc = "parsing"
    /\ \E tok \in NextTokens :
        /\ tok.k = "chars"
        /\ WellFormedNext(sax, tok)
        /\ builder' = IF sax.open # <<>> THEN characters(builder, tok.s) ELSE builder
        /\ sax' = [sax EXCEPT !.fed = Append(@, tok)]
        /\ xcall' = Consume(tok)
    /\ UNCHANGED regvars

sax_endElement ==
    /\ xcall.pc = "parsing"
    /\ \E tok \in NextTokens :
        /\ tok.k = "end"
        /\ WellFormedNext(sax, tok)
        /\ builder' \in endElement(builder, tok.s)
        /\ sax' = [sax EXCEPT !.open = SubSeq(@, 1, Len(@) - 1),
                              !.closed = (Len(sax.open) = 1),
                              !.fed = Append(@, tok)]
        /\ xcall' = Consume(tok)
    /\ UNCHANGED regvars

\* the document is not well-formed: the parser raises, and neither xml2obj
\* nor XmlMapper._parse_data catches it
sax_error ==
    /\ xcall.pc = "parsing"
    /\ \E tok \in NextTokens :
        /\ ~WellFormedNext(sax, tok)
        /\ sax' = [sax EXCEPT !.fed = IF tok = Eof THEN @ ELSE Append(@, tok)]
        /\ xcall' = [Consume(tok) EXCEPT !.pc = "done",
                                         !.raised = "SAXParseException"]
    /\ UNCHANGED <<builder, regvars>>

\* the end of a well-formed document: xml2obj returns builder.root, and
\* XmlMapper._parse_data takes its 'root' entry
xml2obj_return ==
    /\ xcall.pc = "parsing"
    /\ Eof \in NextTokens
    /\ WellFormedNext(sax, Eof)
    /\ xcall' =
         IF xcall.op = "xml2obj"
         THEN [xcall EXCEPT !.pc = "done", !.ret = builder.root]
         ELSE IF s_root \in DOMAIN builder.root.v
         THEN [xcall EXCEPT !.pc = "done", !.ret = builder.root.v[s_root]]
         ELSE XRaise("KeyError", s_root)
    /\ UNCHANGED <<builder, sax, regvars>>

\* the caller has taken the outcome of the call
xcall_done ==
    /\ xcall.pc = "done"
    /\ xcall' = NoXCall
    /\ builder' = NewBuilder
    /\ sax' = NewSax
    /\ UNCHANGED regvars

(***************************************************************************)
(* The mappers' parse()                                                    *)
(***************************************************************************)
s_utf8 == <<"u","t","f","-","8">>
s_latin1 == <<"l","a","t","i","n","-","1">>
s_wrong_charset == <<"w","r","o","n","g"," ","c","h","a","r","s","e","t">>
s_unable_to_parse_data == <<"u","n","a","b","l","e"," ","t","o"," ","p","a","r","s","e"," ","d","a","t","a">>

\* the byte 0xFF, which is no UTF-8 but is y-diaeresis in latin-1
ByteFF == "\\xff"

\* DataMapper.charset
DefaultCharset == s_utf8

\* smart_unicode(data, charset) raises UnicodeDecodeError
UndecodableData(data, charset) ==
    charset = s_utf8 /\ \E i \in 1..Len(data) : data[i] = ByteFF

smart_unicode(data, charset) ==
    [i \in 1..Len(data) |-> IF data[i] = ByteFF THEN "y-diaeresis" ELSE data[i]]

\* DataMapper.parse -> DataMapper._parse_data -> _decode_data
DataMapper_parse(data, charset) ==
    /\ xcall.pc = "idle"
    /\ LET cs == IF Falsy(charset) THEN DefaultCharset ELSE charset
           c == [NoXCall EXCEPT !.op = "DataMapper.parse", !.pc = "done",
                                !.src = IF data = None THEN "None" ELSE "string",
                                !.pending = data, !.charset = cs]
       IN  xcall' =
             IF Falsy(data) THEN [c EXCEPT !.ret = Str(<<>>)]
             ELSE IF UndecodableData(data, cs)
             THEN [c EXCEPT !.raised = "BadRequest", !.message = s_wrong_charset]
             ELSE [c EXCEPT !.ret = Str(smart_unicode(data, cs))]
    /\ UNCHANGED <<builder, sax, regvars>>

\* the integer literals of JSON
IsJsonInt(text) == IsDecimal(text) /\ (Len(text) = 1 \/ text[1] # "0")

\* the literals with a fraction
IsJsonReal(text) ==
    \E i \in 2..(Len(text) - 1) :
        /\ text[i] = "."
        /\ IsJsonInt(SubSeq(text, 1, i - 1))
        /\ IsDecimal(SubSeq(text, i + 1, Len(text)))

\* json.loads raises ValueError: over the inputs of the model, on all but numbers
JsonValueError(text) == ~IsJsonInt(text) /\ ~IsJsonReal(text)

\* json.loads(text, use_decimal=...): a number with a fraction is a float,
\* or the exact Decimal of its literal
json_loads(text, use_decimal) ==
    IF IsJsonInt(text) THEN Num(DecimalValue(text))
    ELSE IF use_decimal THEN [t |-> "decimal", v |-> text]
    ELSE Float(text)

\* JsonMapper.parse / JsonDecimalMapper.parse -> _parse_data
JsonMapper_parse(use_decimal, data, charset) ==
    /\ xcall.pc = "idle"
    /\ LET cs == IF Falsy(charset) THEN DefaultCharset ELSE charset
           c == [NoXCall EXCEPT !.op = IF use_decimal THEN "JsonDecimalMapper.parse"
                                                       ELSE "JsonMapper.parse",
                                !.pc = "done",
                                !.src = IF data = None THEN "None" ELSE "string",
                                !.pending = data, !.charset = cs]
       IN  xcall' =
             IF data = None THEN [c EXCEPT !.raised = "TypeError"]
             ELSE IF JsonValueError(data)
             THEN [c EXCEPT !.raised = "BadRequest",
                            !.message = s_unable_to_parse_data]
             ELSE [c EXCEPT !.ret = json_loads(data, use_decimal)]
    /\ UNCHANGED <<builder, sax, regvars>>

\* XmlMapper.parse -> _parse_data -> xml2obj(data)['root'], data None or a
\* document that is read token by token ('' is the document that ends at once)
XmlMapper_parse(data) ==
    /\ xcall.pc = "idle"
    /\ builder' = NewBuilder
    /\ sax' = NewSax
    /\ xcall' =
         IF data = "None"
         THEN [NoXCall EXCEPT !.op = "XmlMapper.parse", !.pc = "done",
                              !.src = "None", !.charset = DefaultCharset,
                              !.raised = "AttributeError"]
         ELSE [NoXCall EXCEPT !.op = "XmlMapper.parse", !.pc = "parsing",
                              !.src = "stream", !.charset = DefaultCharset]
    /\ UNCHANGED regvars

TextInputs == {None, <<>>, <<"1">>, <<"x", ByteFF>>}
JsonInputs == {None, <<>>, <<"1","2">>, <<"0","1">>, <<"1",".","5">>, <<"x">>}
Charsets == {None, s_utf8, s_latin1}

(***************************************************************************)
(* XmlMapper._format_data and _to_xml                                      *)
(***************************************************************************)
_root_element_name == s_root

_list_item_element_name(key) == (IF Falsy(key) THEN <<>> ELSE key) \o s__item

\* the orders data.iteritems() can take the keys in
KeyOrders(f) ==
    LET n == Cardinality(DOMAIN f)
    IN  { q \in [1..n -> DOMAIN f] : \A i, j \in 1..n : q[i] = q[j] => i = j }

\* xml.characters(smart_unicode(data)) of a scalar
ScalarText(data) ==
    IF data.t = "num" THEN smart_unicode_int(data.v) ELSE data.v

RECURSIVE _to_xml(_, _), _to_xml_items(_, _), _to_xml_pairs(_, _)
\* the token sequences _to_xml(xml, data, key) can write
_to_xml(data, key) ==
    IF data.t = "list" THEN _to_xml_items(data.v, _list_item_element_name(key))
    ELSE IF data.t = "dict"
    THEN UNION { _to_xml_pairs(order, data.v) : order \in KeyOrders(data.v) }
    ELSE IF ScalarText(data) = <<>> THEN { <<>> }
    ELSE { <<CharData(ScalarText(data))>> }

_to_xml_items(items, elemname) ==
    IF items = <<>> THEN { <<>> }
    ELSE { <<StartTag(elemname)>> \o x \o <<EndTag(elemname)>> \o rest :
             x \in _to_xml(Head(items), None),
             rest \in _to_xml_items(Tail(items), elemname) }

_to_xml_pairs(order, f) ==
    IF order = <<>> THEN { <<>> }
    ELSE { <<StartTag(Head(order))>> \o x \o <<EndTag(Head(order))>> \o rest :
             x \in _to_xml(f[Head(order)], Head(order)),
             rest \in _to_xml_pairs(Tail(order), f) }

\* the documents _format_data(data) can return; '' is the empty document
_format_data(data) ==
    IF data = PyNone \/ data = Str(<<>>) THEN { <<>> }
    ELSE { <<StartTag(_root_element_name)>> \o x \o <<EndTag(_root_element_name)>> :
             x \in _to_xml(data, None) }

\* bounds of the values that are formatted
MaxSeqLen == 2

Leaves == {Num(1), Str(<<"x">>)}
ValueKeys == {s_a, s_b}

SeqsOf(S) == UNION { [1..k -> S] : k \in 0..MaxSeqLen }
DictsOf(S) == UNION { [D -> S] : D \in SUBSET ValueKeys }
Containers(S) == {List(x) : x \in SeqsOf(S)} \cup {Dict(f) : f \in DictsOf(S)}

Values1 == Leaves \cup Containers(Leaves)
Values2 == Values1 \cup Containers(Values1)
FormatInputs == Values2 \cup {PyNone, Str(<<>>)}

XmlMapper_format_data(data) ==
    /\ xcall.pc = "idle"
    /\ \E content \in _format_data(data) :
         xcall' = [NoXCall EXCEPT !.op = "XmlMapper.format", !.pc = "formatted",
                                  !.src = "string", !.pending = content,
                                  !.orig = data, !.charset = DefaultCharset]
    /\ builder' = NewBuilder
    /\ sax' = NewSax
    /\ UNCHANGED regvars

\* XmlMapper.parse of the document that XmlMapper.format has produced
XmlMapper_parse_formatted ==
    /\ xcall.pc = "formatted"
    /\ xcall' = [xcall EXCEPT !.op = "XmlMapper.parse", !.pc = "parsing"]
    /\ UNCHANGED <<builder, sax, regvars>>

\* the documents of the examples: repeated siblings, and a text and a number
ExampleDocs ==
    { <<StartTag(s_root),
        StartTag(s_item), CharData(<<"1">>), EndTag(s_item),
        StartTag(s_item), CharData(<<"2">>), EndTag(s_item),
        StartTag(s_item), CharData(<<"3">>), EndTag(s_item),
        EndTag(s_root)>>,
      <<StartTag(s_root),
        StartTag(s_a), CharData(<<"x">>), EndTag(s_a),
        StartTag(s_b), CharData(<<"3","0">>), EndTag(s_b),
        EndTag(s_root)>> }

\* xml2obj(src), src a string
xml2obj_string(doc) ==
    /\ xcall.pc = "idle"
    /\ xcall' = [NoXCall EXCEPT !.op = "xml2obj", !.pc = "parsing",
                                !.src = "string", !.pending = doc]
    /\ builder' = NewBuilder
    /\ sax' = NewSax
    /\ UNCHANGED regvars

(***************************************************************************)
(* Specifications                                                          *)
(***************************************************************************)
Init ==
    /\ datamappers = EmptyDict
    /\ default_mapper = TextMapper
    /\ booted = FALSE
    /\ calls = <<>>
    /\ call = Idle
    /\ builder = NewBuilder
    /\ sax = NewSax
    /\ xcall = NoXCall

\* the values register_mapper and set_default_mapper are tried with
RegMappers == {TextMapper, JsonMapper, NoParseObj}
RegContentTypes == {s_vnd_custom, s_text_xml}
RegShortNames == {None, s_xml}
DefaultMappers == {None, JsonMapper, NoParseObj}

\* negotiation: the start-up registrations, one customisation of the
\* registry, the defaults and the requests
Next ==
    \/ register_mappers
    \/ register_mapper(JsonMapper, s_vnd_custom, s_xml)
    \/ \E m \in DefaultMappers : set_default_mapper(m)
    \/ \E r \in Requests, d \in ResourceDefaults : select_formatter(r, d)
    \/ \E r \in Requests, d \in ResourceDefaults : select_parser(r, d)
    \/ \E ct \in ContentTypes \ {None} : get_mapper_by_content_type(ct)
    \/ call_done

Spec == Init /\ [][Next]_vars

\* registration: any registrations, in any order with the start-up ones
NextReg ==
    \/ register_mappers
    \/ \E m \in RegMappers, ct \in RegContentTypes, sn \in RegShortNames :
           register_mapper(m, ct, sn)
    \/ \E m \in DefaultMappers : set_default_mapper(m)
    \/ \E ct \in {s_vnd_custom, s_text_xml \o s_charset, s_xml, s_vnd_nonexistent} :
           get_mapper_by_content_type(ct)
    \/ call_done

SpecReg == Init /\ [][NextReg]_vars

NextXml ==
    \/ \E data \in TextInputs, cs \in Charsets : DataMapper_parse(data, cs)
    \/ \E ud \in BOOLEAN, data \in JsonInputs, cs \in Charsets :
           JsonMapper_parse(ud, data, cs)
    \/ \E data \in {"None", "stream"} : XmlMapper_parse(data)
    \/ xml2obj
    \/ \E doc \in ExampleDocs : xml2obj_string(doc)
    \/ sax_startElement
    \/ sax_characters
    \/ sax_endElement
    \/ sax_error
    \/ xml2obj_return
    \/ xcall_done

SpecXml == Init /\ [][NextXml]_vars

NextRT ==
    \/ \E data \in FormatInputs : XmlMapper_format_data(data)
    \/ XmlMapper_parse_formatted
    \/ sax_startElement
    \/ sax_characters
    \/ sax_endElement
    \/ sax_error
    \/ xml2obj_return
    \/ xcall_done

SpecRT == Init /\ [][NextRT]_vars

(***************************************************************************)
(* The signals of a request, as the specification names them               *)
(***************************************************************************)
\* the trailing extension of the path: '.' and 1 to 8 word characters
PathExtensions(path) ==
    { ext \in { SubSeq(path, Len(path) - n + 1, Len(path)) :
                  n \in { m \in 1..8 : m < Len(path) } } :
        /\ path[Len(path) - Len(ext)] = "."
        /\ \A i \in 1..Len(ext) : ext[i] \in WordChars }

HasShortName(request) ==
    ~Falsy(request.format) \/ PathExtensions(request.path) # {}

ShortNameSignal(request) ==
    IF ~Falsy(request.format) THEN request.format
    ELSE CHOOSE ext \in PathExtensions(request.path) : TRUE

Contains(text, part) ==
    \E i \in 0..(Len(text) - Len(part)) : SubSeq(text, i + 1, i + Len(part)) = part

\* the outcome is NotAcceptable, with the name in its message, and no codec
RaisedUnknown(out, name) ==
    /\ out.raised = "NotAcceptable"
    /\ out.ret = None
    /\ Contains(out.message, name)
    /\ out.message = s_unknown_data_format \o name

\* resolution of a name by the registry alone
Resolved(name) ==
    IF name \in DOMAIN datamappers THEN Returned("found", datamappers[name])
    ELSE Raised("unknown", "NotAcceptable", s_unknown_data_format \o name)

(***************************************************************************)
(* C2: select_formatter, given a short-name signal (a non-empty 'format'   *)
(* parameter, or else a path extension), resolves the codec from the short *)
(* name and the outcome does not depend on the Accept header: it is the    *)
(* same for every Accept header, in every registry state.                  *)
(***************************************************************************)
C2_ShortNameBeatsAccept ==
    (call.op = "select_formatter" /\ HasShortName(call.request)) =>
        /\ call.mapper_name = ShortNameSignal(call.request)
        /\ call.out = Resolved(ShortNameSignal(call.request))
        /\ \A accept \in Accepts :
             LET r == [call.request EXCEPT !.HTTP_ACCEPT = accept]
             IN  _get_mapper(datamappers, default_mapper,
                             select_formatter_name(r, datamappers), call.arg)
                   = call.out

\* format=json with Accept: text/xml, both registered: the JSON codec
C2_Witness ==
    /\ call.op = "select_formatter"
    /\ call.request.format = s_json
    /\ call.request.HTTP_ACCEPT = << <<s_text_xml, 10>> >>
    /\ s_text_xml \in DOMAIN datamappers
    /\ datamappers[s_text_xml] = XmlMapper
    /\ call.out.ret = JsonMapper

(***************************************************************************)
(* C3: select_parser takes the codec name from the first present signal:   *)
(* the Content-Type header without its charset suffix, then the 'format'   *)
(* parameter, then the path extension; a later signal is used only when    *)
(* every earlier one is absent or empty.                                   *)
(***************************************************************************)
C3_ParserSignalOrder ==
    call.op = "select_parser" =>
        LET r == call.request
        IN  /\ ~Falsy(r.CONTENT_TYPE) =>
                  call.mapper_name = strip_charset(r.CONTENT_TYPE)
            /\ (Falsy(r.CONTENT_TYPE) /\ ~Falsy(r.format)) =>
                  call.mapper_name = r.format
            /\ (Falsy(r.CONTENT_TYPE) /\ Falsy(r.format)
                   /\ PathExtensions(r.path) # {}) =>
                  call.mapper_name \in PathExtensions(r.path)
            /\ (Falsy(r.CONTENT_TYPE) /\ Falsy(r.format)
                   /\ PathExtensions(r.path) = {}) =>
                  Falsy(call.mapper_name)
            /\ ~Falsy(call.mapper_name) => call.out = Resolved(call.mapper_name)

\* Content-Type text/xml and ?format=json: parsed with the XML codec
C3_Witness ==
    /\ call.op = "select_parser"
    /\ call.request.CONTENT_TYPE = s_text_xml \o s_charset
    /\ call.request.format = s_json
    /\ s_json \in DOMAIN datamappers
    /\ call.mapper_name = s_text_xml
    /\ call.out.ret = XmlMapper

(***************************************************************************)
(* C4: for select_parser and select_formatter the default codec is used    *)
(* only when the request carries no signal at all (no Content-Type for the *)
(* parser, no 'format', no path extension, and for the formatter no Accept *)
(* entries).                                                               *)
(***************************************************************************)
NoSignalAtAll(op, r) ==
    /\ Falsy(r.format)
    /\ PathExtensions(r.path) = {}
    /\ op = "select_parser" => Falsy(r.CONTENT_TYPE)
    /\ op = "select_formatter" => r.HTTP_ACCEPT = <<>>

NoUsableName(op, r) ==
    IF op = "select_parser"
    THEN \/ Falsy(r.CONTENT_TYPE) /\ ~HasShortName(r)
         \/ ~Falsy(r.CONTENT_TYPE) /\ strip_charset(r.CONTENT_TYPE) = <<>>
    ELSE /\ ~HasShortName(r)
         /\ \A i \in 1..Len(r.HTTP_ACCEPT) :
                r.HTTP_ACCEPT[i][1] \notin DOMAIN datamappers

NoParserSignal(r) ==
    Falsy(r.CONTENT_TYPE) /\ Falsy(r.format) /\ PathExtensions(r.path) = {}

C6_FallbackNeverRaises ==
    (call.op = "select_parser" /\ NoParserSignal(call.request)) =>
        /\ call.out.raised = ""
        /\ call.out.ret \in MapperObjs

(***************************************************************************)
(* C6, as amended: ... select_parser returns the configured default codec  *)
(* and does not raise, unless default_parser is a name that is no key of   *)
(* the registry: then it raises NotAcceptable with that name.              *)
(***************************************************************************)
C6_FallbackToConfiguredDefault ==
    (call.op = "select_parser" /\ NoParserSignal(call.request)) =>
        IF Falsy(call.arg)
        THEN call.out.raised = "" /\ call.out.ret = default_mapper
        ELSE IF call.arg \in MapperObjs
        THEN call.out.raised = "" /\ call.out.ret = call.arg
        ELSE IF call.arg \in DOMAIN datamappers
        THEN call.out.raised = "" /\ call.out.ret = datamappers[call.arg]
        ELSE RaisedUnknown(call.out, call.arg)

\* the resource names its default parser, and the name is registered
C6_Witness ==
    /\ call.op = "select_parser"
    /\ NoParserSignal(call.request)
    /\ call.arg = s_json
    /\ default_mapper = TextMapper
    /\ call.out.raised = ""
    /\ call.out.ret = JsonMapper

(***************************************************************************)
(* C7: after any sequence of successful register_mapper calls, a non-empty *)
(* key resolves to the codec of the most recent call that named it as its  *)
(* content_type or as its non-empty short name; a key no call named        *)
(* resolves to nothing.                                                    *)
(***************************************************************************)
Names(c) ==
    {c.content_type} \cup (IF Falsy(c.shortname) THEN {} ELSE {c.shortname})

AllKeys ==
    {s_text, s_xml, s_json, s_text_plain, s_text_xml, s_application_json,
     s_application_x_javascript, s_text_javascript, s_text_x_javascript,
     s_text_x_json, s_vnd_custom, s_vnd_nonexistent, s_cust}

C7_LastRegistrationWins ==
    \A k \in AllKeys :
        LET naming == { i \in 1..Len(calls) : k \in Names(calls[i]) }
            out == _get_mapper(datamappers, default_mapper, k, None)
        IN  IF naming = {} THEN out.raised = "NotAcceptable"
            ELSE LET last == CHOOSE i \in naming : \A j \in naming : j <= i
                 IN  out.raised = "" /\ out.ret = calls[last].mapper

\* a key registered twice, with different codecs
C7_Witness ==
    \E i, j \in 1..Len(calls) :
        /\ i < j
        /\ calls[i].content_type = calls[j].content_type
        /\ calls[i].mapper # calls[j].mapper
        /\ \A n \in (j + 1)..Len(calls) : calls[j].content_type \notin Names(calls[n])
        /\ datamappers[calls[j].content_type] = calls[j].mapper

(***************************************************************************)
(* Documents, as the specification describes them                          *)
(***************************************************************************)
RECURSIVE WellFormedFrom(_, _, _)
\* the tokens continue a document with elements `open` still open, `closed`
\* telling that the root element has ended, to a complete document
WellFormedFrom(toks, open, closed) ==
    IF toks = <<>> THEN open = <<>> /\ closed
    ELSE LET tok == Head(toks)
         IN  CASE tok.k = "start" ->
                    /\ (open # <<>> \/ ~closed)
                    /\ WellFormedFrom(Tail(toks), Append(open, tok.s), closed)
               [] tok.k = "end" ->
                    /\ open # <<>>
                    /\ open[Len(open)] = tok.s
                    /\ WellFormedFrom(Tail(toks), SubSeq(open, 1, Len(open) - 1),
                                      Len(open) = 1)
               [] OTHER ->
                    /\ (open # <<>> \/ \A i \in 1..Len(tok.s) : tok.s[i] \in Whitespace)
                    /\ WellFormedFrom(Tail(toks), open, closed)

WellFormedDoc(toks) == WellFormedFrom(toks, <<>>, FALSE)

RECURSIVE AllLeafChildren(_, _)
\* the tokens are a run of elements named n that hold character data only
AllLeafChildren(toks, n) ==
    IF toks = <<>> THEN TRUE
    ELSE /\ toks[1] = StartTag(n)
         /\ \E j \in 2..Len(toks) :
               /\ toks[j] = EndTag(n)
               /\ \A i \in 2..(j - 1) : toks[i].k = "chars"
               /\ AllLeafChildren(SubSeq(toks, j + 1, Len(toks)), n)

RECURSIVE LeafValuesOf(_)
\* the values of such a run, in document order: the trimmed text of each
\* element, as a number when it is one
LeafValuesOf(toks) ==
    IF toks = <<>> THEN <<>>
    ELSE LET j == CHOOSE j \in 2..Len(toks) :
                     toks[j].k = "end" /\ \A i \in 2..(j - 1) : toks[i].k = "chars"
         IN  <<LeafValue([i \in 1..(j - 2) |-> toks[i + 1].s])>>
                 \o LeafValuesOf(SubSeq(toks, j + 1, Len(toks)))

Inner(doc) == SubSeq(doc, 2, Len(doc) - 1)

\* <root> with two or more children, all leaves of the one name n
RepeatedLeafDoc(doc, n) ==
    /\ Len(doc) >= 6
    /\ doc[1] = StartTag(s_root)
    /\ doc[Len(doc)] = EndTag(s_root)
    /\ AllLeafChildren(Inner(doc), n)
    /\ Len(LeafValuesOf(Inner(doc))) >= 2

Entry(key, value) == [k \in {key} |-> value]

(***************************************************************************)
(* C1: xml2obj of a document whose root element has two or more children   *)
(* that all share one name yields {'root': {<name>: [v1, ..., vN]}}, the   *)
(* leaf values in document order, numeric leaves as exact decimal numbers. *)
(***************************************************************************)
C1_SiblingsKeepTheirName ==
    \A n \in StreamNames :
        (xcall.op = "xml2obj" /\ xcall.pc = "done" /\ RepeatedLeafDoc(sax.fed, n)) =>
            /\ xcall.raised = ""
            /\ xcall.ret =
                 Dict(Entry(s_root,
                            Dict(Entry(n, List(LeafValuesOf(Inner(sax.fed)))))))

(***************************************************************************)
(* C1, as amended: ... yields {'root': [v1, ..., vN]}: the sequence of the *)
(* leaf values in document order is the value of 'root' itself, and the    *)
(* children's name is not kept.                                            *)
(***************************************************************************)
C1_SiblingsCollapseIntoParent ==
    \A n \in StreamNames :
        (xcall.op = "xml2obj" /\ xcall.pc = "done" /\ RepeatedLeafDoc(sax.fed, n)) =>
            /\ xcall.raised = ""
            /\ xcall.ret = Dict(Entry(s_root, List(LeafValuesOf(Inner(sax.fed)))))

\* <root><item>1</item><item>2</item><item>3</item></root>
C1_Witness ==
    /\ xcall.op = "xml2obj"
    /\ xcall.pc = "done"
    /\ RepeatedLeafDoc(sax.fed, s_item)
    /\ Len(sax.fed) = 11
    /\ xcall.ret = Dict(Entry(s_root, List(<<Num(1), Num(2), Num(3)>>)))

(***************************************************************************)
(* C8: XmlMapper.parse of input that is not well-formed XML fails with     *)
(* BadRequest, and with no other kind of error.                            *)
(***************************************************************************)
C8_MalformedXmlIsBadRequest ==
    (xcall.op = "XmlMapper.parse" /\ xcall.pc = "done" /\ xcall.src # "None"
        /\ sax.fed # <<>> /\ ~WellFormedDoc(sax.fed)) =>
        xcall.raised = "BadRequest"

(***************************************************************************)
(* C9: for every codec (PlainText, Json, JsonDecimal, Xml), parse of empty *)
(* or null input returns an empty text value and raises no error.          *)
(***************************************************************************)
ParseOps ==
    {"DataMapper.parse", "JsonMapper.parse", "JsonDecimalMapper.parse",
     "XmlMapper.parse"}

EmptyOrNullInput ==
    \/ xcall.src = "None"
    \/ xcall.op = "XmlMapper.parse" /\ sax.fed = <<>>
    \/ xcall.op # "XmlMapper.parse" /\ xcall.pending = <<>>

C9_EmptyInputIsEmptyText ==
    (xcall.op \in ParseOps /\ xcall.pc = "done" /\ EmptyOrNullInput) =>
        /\ xcall.raised = ""
        /\ xcall.ret = Str(<<>>)

(***************************************************************************)
(* C10: XML round trip: for every value built from text, numbers, mappings *)
(* and sequences, XmlMapper.parse of what XmlMapper formats for it gives   *)
(* the value back; in particular for sequences of length 1 and mappings of *)
(* several keys.  (Stated for the values without empty text and without    *)
(* empty mappings or sequences.)                                           *)
(***************************************************************************)
RECURSIVE NothingEmpty(_)
NothingEmpty(x) ==
    CASE x.t = "list" -> x.v # <<>> /\ \A i \in 1..Len(x.v) : NothingEmpty(x.v[i])
      [] x.t = "dict" -> x.v # <<>> /\ \A k \in DOMAIN x.v : NothingEmpty(x.v[k])
      [] x.t = "str" -> x.v # <<>>
      [] OTHER -> x.t = "num"

C10_XmlRoundTrip ==
    (xcall.op = "XmlMapper.parse" /\ xcall.pc = "done" /\ xcall.src = "string"
        /\ NothingEmpty(xcall.orig)) =>
        /\ xcall.raised = ""
        /\ xcall.ret = xcall.orig

====
